---- MODULE Spec2Model ----
(***************************************************************************)
(* A model of learn2learn/data/models.py: the MAML building blocks         *)
(* (MAMLLinearBlock, MAMLConvBlock, MAMLConvBase), the classifiers built   *)
(* from them (OmniglotCNN, MiniImagenetCNN, MAMLFC) and the initializers   *)
(* (truncated_normal_, maml_fc_init_, maml_init_).                         *)
(*                                                                         *)
(* Abstractions.                                                           *)
(*  - An activation tensor is its shape, plus for every row (index of      *)
(*    dimension 0) the set of input examples whose features the row holds  *)
(*    ("owner"), plus the identity of the batch it was computed from.      *)
(*  - A parameter tensor of a module is the initializer that last wrote    *)
(*    it (weights) or the set of values it holds (biases).                 *)
(*  - Statistics of a batch-normalization layer are the set of batches     *)
(*    they were computed from.                                             *)
(*  - In the tensor-level specification (SpecTN) a tensor is its shape and *)
(*    its flat data; reals are fixed-point integers.                       *)
(*  - None is <<>>, an optional value v is <<v>>.                          *)
(***************************************************************************)
EXTENDS Integers, Sequences, FiniteSets, TLC

VARIABLES
    model,    \* the module object last constructed: [cls, training, obj]
    call,     \* the constructor call that built it: its name and arguments
    x,        \* the argument of the last forward call
    out,      \* the value returned by the last forward call
    raised,   \* the exception raised by the last call, "" when it returned
    heap,     \* SpecTN: the tensors, by identity
    arg,      \* SpecTN: the arguments of the last truncated_normal_ call
    ret       \* SpecTN: the identity of the tensor that call returned

vars == <<model, call, x, out, raised, heap, arg, ret>>

-----------------------------------------------------------------------------
(* Bounds of the model and the inputs the actions draw from.               *)

\* batch sizes N range over 1..MaxBatch
MaxBatch == 2
\* distinct batches (contents) that can be fed to forward
NumBatches == 2
\* `layers` ranges up to MaxLayers
MaxLayers == 4
\* `sizes` lists of MAMLFC have at most MaxSizes entries
MaxSizes == 2
\* max_pool_factor is a multiple of 1/FactorDen
FactorDen == 4

None == <<>>
Some(v) == <<v>>

BatchSizes == 1..MaxBatch
Batches == 1..NumBatches
HiddenSizes == {32, 64}
OutputSizes == {3, 5}
\* <<channels, hidden>> of a convolution: Omniglot's and MiniImagenet's
ConvSizes == {<<1, 64>>, <<3, 32>>}
Widths == {10, 784}
FCSizes == {10, 64}
\* numerators q of max_pool_factor = q / FactorDen, for a single block
BlockFactors == (-2)..(2 * FactorDen + 1)
\* numerators of the mp_factor values given to a MAMLConvBase: 1/FactorDen,
\* 1.0, 2 and 4
BaseFactors == {1, FactorDen, 2 * FactorDen, 4 * FactorDen}
\* values a freshly allocated (framework-initialized) bias may hold
DefaultBiasValues == {{0}, {-1, 1}, {-1, 0, 1}}
\* the shapes given to forward, for a batch of n examples
InputShapes(n) ==
    {<<n, 784>>, <<n, 1, 28, 28>>, <<n, 3, 84, 84>>, <<n, 10>>}

-----------------------------------------------------------------------------
(* Arithmetic.                                                             *)

RECURSIVE Prod(_)
Prod(s) == IF s = <<>> THEN 1 ELSE Head(s) * Prod(Tail(s))

Max(a, b) == IF a >= b THEN a ELSE b
Min(a, b) == IF a <= b THEN a ELSE b

\* Python's int() of the rational n/d (d > 0): truncation toward zero.
IntTruncMut(n, d) == n \div d
IntTrunc(n, d) == IF n >= 0 THEN n \div d ELSE -((-n) \div d)

\* range(n) of Python as the number of iterations
RangeLen(n) == Max(n, 0)

SeqsUpTo(S, n) == UNION {[1..k -> S] : k \in 0..n}

-----------------------------------------------------------------------------
(* Parameter tensors and the initializers, at module level.                *)

\* a weight as left by an initializer; std in hundredths
Weight(init, mean, std, gain) ==
    [init |-> init, mean |-> mean, std |-> std, gain |-> gain]

DefaultWeight == Weight("default", 0, 0, 0)

\* nn.Linear(in_features, out_features, bias): d is what the framework's
\* default initialization left in the bias
Linear(in_features, out_features, bias, d) ==
    [type |-> "Linear", in_features |-> in_features,
     out_features |-> out_features,
     weight |-> Some(DefaultWeight),
     bias |-> IF bias THEN Some(d) ELSE None]

\* nn.Conv2d(in_channels, out_channels, kernel_size, stride, padding, bias)
Conv2d(in_channels, out_channels, kernel_size, stride, padding, bias, d) ==
    [type |-> "Conv2d", in_channels |-> in_channels,
     out_channels |-> out_channels, kernel_size |-> kernel_size,
     stride |-> stride, padding |-> padding,
     weight |-> Some(DefaultWeight),
     bias |-> IF bias THEN Some(d) ELSE None]

\* hasattr(module, a) and module.a is not None
HasAttr(module, a) == a \in DOMAIN module /\ module[a] # None

\* the weight truncated_normal_(weight, mean, std) leaves
TruncatedNormalWeight(mean, std) == Weight("truncated_normal_", mean, std, 0)

\* nn.init.xavier_uniform_(weight, gain)
XavierUniformWeight(gain) == Weight("xavier_uniform_", 0, 0, gain)

\* tensor.normal_(): mean 0, std 1
NormalWeight == Weight("normal_", 0, 100, 0)

\* nn.init.constant_(tensor, c) on a tensor holding the values vs
Constant(vs, c) == {c}

\* tensor.mul_(c)
MulMut(vs, c) == vs
Mul(vs, c) == {v * c : v \in vs}

maml_fc_init_Mut(module) ==
    LET m1 == IF HasAttr(module, "weight")
              THEN [module EXCEPT !.weight = Some(XavierUniformWeight(1))]
              ELSE module
    IN  IF HasAttr(m1, "bias")
        THEN [m1 EXCEPT !.bias = Some(Constant(m1.bias[1], 0))]
        ELSE m1
maml_fc_init_(module) ==
    LET m1 == IF HasAttr(module, "weight")
              THEN [module EXCEPT !.weight = Some(TruncatedNormalWeight(0, 1))]
              ELSE module
    IN  IF HasAttr(m1, "bias")
        THEN [m1 EXCEPT !.bias = Some(Constant(m1.bias[1], 0))]
        ELSE m1

\* maml_init_ reads module.weight.data and module.bias.data unguarded; every
\* module the source passes to it has both
maml_init_(module) ==
    [module EXCEPT !.weight = Some(XavierUniformWeight(1)),
                   !.bias = Some(Constant(module.bias[1], 0))]

-----------------------------------------------------------------------------
(* The layers of the framework that the blocks configure.                  *)

\* nn.BatchNorm1d / nn.BatchNorm2d (dims 1 / 2); momentum and eps in
\* thousandths.  Without track_running_stats the layer has no running_mean,
\* running_var or num_batches_tracked buffer.
BatchNorm(dims, num_features, affine, momentum, eps, track_running_stats) ==
    [type |-> "BatchNorm", dims |-> dims, num_features |-> num_features,
     affine |-> affine, momentum |-> momentum, eps |-> eps,
     track_running_stats |-> track_running_stats,
     weight |-> IF affine THEN Some(Weight("ones", 0, 0, 0)) ELSE None,
     bias |-> IF affine THEN Some({0}) ELSE None,
     running_mean |-> IF track_running_stats THEN Some({}) ELSE None,
     running_var |-> IF track_running_stats THEN Some({}) ELSE None,
     num_batches_tracked |-> IF track_running_stats THEN Some(0) ELSE None]

\* nn.MaxPool2d(kernel_size, stride, ceil_mode), padding 0
MaxPool2d(kernel_size, stride, ceil_mode) ==
    [type |-> "MaxPool2d", kernel_size |-> kernel_size, stride |-> stride,
     padding |-> 0, ceil_mode |-> ceil_mode]

\* lambda x: x
IdentityPool == [type |-> "identity"]

-----------------------------------------------------------------------------
(* Activations and the forward computation of each layer.                  *)

\* the batch `id` given with shape `shape`: row i holds example i
Input(shape, id) ==
    [shape |-> shape, owner |-> [i \in 1..shape[1] |-> {i}], id |-> id,
     stats |-> <<>>, err |-> ""]

NoTensor == [shape |-> <<>>, owner |-> <<>>, id |-> 0, stats |-> <<>>, err |-> ""]

Ok(y) == y.err = ""
Fail(y, e) == [y EXCEPT !.shape = <<>>, !.owner = <<>>, !.stats = <<>>, !.err = e]

\* F.linear: the last dimension must be in_features
LinearForward(l, y) ==
    IF ~Ok(y) THEN y
    ELSE IF Len(y.shape) < 1 \/ y.shape[Len(y.shape)] # l.in_features
         THEN Fail(y, "RuntimeError")
    ELSE [y EXCEPT !.shape[Len(y.shape)] = l.out_features]

\* output length of a convolution or pooling window along one dimension:
\* floor((h + 2p - k) / s) + 1
WindowOutMut(h, k, s, p) == (h + 2 * p - k + s - 1) \div s + 1
WindowOut(h, k, s, p) == (h + 2 * p - k) \div s + 1

\* whether a k-window of stride s fits an input of length h padded by p
WindowFits(h, k, s, p) ==
    /\ k > 0 /\ s > 0
    /\ h + 2 * p >= k
    /\ WindowOut(h, k, s, p) > 0

\* F.conv2d on (N, C, H, W)
Conv2dForward(c, y) ==
    IF ~Ok(y) THEN y
    ELSE IF \/ Len(y.shape) # 4
            \/ y.shape[2] # c.in_channels
            \/ ~WindowFits(y.shape[3], c.kernel_size[1], c.stride[1], c.padding)
            \/ ~WindowFits(y.shape[4], c.kernel_size[2], c.stride[2], c.padding)
         THEN Fail(y, "RuntimeError")
    ELSE [y EXCEPT
            !.shape = <<y.shape[1], c.out_channels,
                        WindowOut(y.shape[3], c.kernel_size[1], c.stride[1], c.padding),
                        WindowOut(y.shape[4], c.kernel_size[2], c.stride[2], c.padding)>>]

\* whether the layer normalizes with the statistics of the current batch:
\* in training mode, and whenever it has no running statistics
UsesBatchStats(bn, training) == training \/ bn.running_mean = None

\* the number of values per channel of an activation (N, C, ...)
ValuesPerChannel(shape) == Prod(shape) \div shape[2]

BatchNormShapeOk(bn, shape) ==
    /\ IF bn.dims = 1 THEN Len(shape) \in {2, 3} ELSE Len(shape) = 4
    /\ shape[2] = bn.num_features

\* F.batch_norm: normalizing with batch statistics needs more than one value
\* per channel.  The output records the batches its statistics come from.
BatchNormForward(bn, y, training) ==
    IF ~Ok(y) THEN y
    ELSE IF ~BatchNormShapeOk(bn, y.shape) THEN Fail(y, "RuntimeError")
    ELSE IF UsesBatchStats(bn, training) /\ ValuesPerChannel(y.shape) = 1
         THEN Fail(y, "ValueError")
    ELSE [y EXCEPT !.stats = Append(@, IF UsesBatchStats(bn, training)
                                       THEN {y.id}
                                       ELSE bn.running_mean[1])]

\* the layer after that call: running statistics are updated only in
\* training mode by a layer that tracks them
BatchNormAfter(bn, y, training) ==
    IF /\ Ok(BatchNormForward(bn, y, training))
       /\ training /\ bn.track_running_stats
    THEN [bn EXCEPT !.running_mean = Some(@[1] \cup {y.id}),
                    !.running_var = Some(@[1] \cup {y.id}),
                    !.num_batches_tracked = Some(Min(@[1] + 1, NumBatches))]
    ELSE bn

\* nn.ReLU: elementwise
ReLU(y) == y

\* self.max_pool: nn.MaxPool2d, or the identity lambda
MaxPoolForward(p, y) ==
    IF ~Ok(y) \/ p.type = "identity" THEN y
    ELSE IF \/ Len(y.shape) # 4
            \/ ~WindowFits(y.shape[3], p.kernel_size[1], p.stride[1], p.padding)
            \/ ~WindowFits(y.shape[4], p.kernel_size[2], p.stride[2], p.padding)
         THEN Fail(y, "RuntimeError")
    ELSE [y EXCEPT
            !.shape = <<y.shape[1], y.shape[2],
                        WindowOut(y.shape[3], p.kernel_size[1], p.stride[1], p.padding),
                        WindowOut(y.shape[4], p.kernel_size[2], p.stride[2], p.padding)>>]

\* x.mean(dim=[2, 3])
MeanSpatial(y) ==
    IF ~Ok(y) THEN y
    ELSE IF Len(y.shape) < 4 THEN Fail(y, "IndexError")
    ELSE [y EXCEPT !.shape = <<y.shape[1], y.shape[2]>> \o SubSeq(y.shape, 5, Len(y.shape))]

\* x.view(-1, *tail): the rows of the result are consecutive runs of
\* Prod(tail) elements of the flat data; row r holds features of the
\* examples whose own runs it overlaps
View(y, tail) ==
    IF ~Ok(y) THEN y
    ELSE LET total == Prod(y.shape)
             w == Prod(tail)
             f == total \div y.shape[1]
         IN  IF total % w # 0 THEN Fail(y, "RuntimeError")
             ELSE [y EXCEPT
                     !.shape = <<total \div w>> \o tail,
                     !.owner = [r \in 1..(total \div w) |->
                                  UNION {y.owner[j] :
                                           j \in (((r - 1) * w) \div f + 1)
                                                 .. ((r * w - 1) \div f + 1)}]]

-----------------------------------------------------------------------------
(* The classes.  A forward operator returns the output and the module      *)
(* after the call: [y, self].                                              *)

TrackRunningStatsMut == TRUE
\* track_running_stats of both blocks' batch normalization
TrackRunningStats == FALSE

MAMLLinearBlock(input_size, output_size, d) ==
    [cls |-> "MAMLLinearBlock",
     normalize |-> BatchNorm(1, output_size, TRUE, 999, 1, TrackRunningStats),
     linear |-> maml_fc_init_(Linear(input_size, output_size, TRUE, d))]

MAMLLinearBlock_forward(self, y, training) ==
    LET y1 == LinearForward(self.linear, y)
        y2 == BatchNormForward(self.normalize, y1, training)
    IN  [y |-> ReLU(y2),
         self |-> [self EXCEPT !.normalize = BatchNormAfter(@, y1, training)]]

BlockStrideMut(q) == <<IntTrunc(q, FactorDen), IntTrunc(q, FactorDen)>>
\* stride = (int(2 * max_pool_factor), int(2 * max_pool_factor)), with
\* max_pool_factor = q / FactorDen
BlockStride(q) == <<IntTrunc(2 * q, FactorDen), IntTrunc(2 * q, FactorDen)>>

ConvStride(max_pool, q) == IF max_pool THEN <<1, 1>> ELSE BlockStride(q)

MAMLConvBlock(in_channels, out_channels, kernel_size, max_pool, q, d) ==
    [cls |-> "MAMLConvBlock",
     max_pool |-> IF max_pool
                  THEN MaxPool2d(BlockStride(q), BlockStride(q), FALSE)
                  ELSE IdentityPool,
     normalize |-> BatchNorm(2, out_channels, TRUE, 999, 1, TrackRunningStats),
     conv |-> maml_init_(Conv2d(in_channels, out_channels, kernel_size,
                                ConvStride(max_pool, q), 1, TRUE, d))]

MAMLConvBlock_forward(self, y, training) ==
    LET y1 == Conv2dForward(self.conv, y)
        y2 == BatchNormForward(self.normalize, y1, training)
    IN  [y |-> MaxPoolForward(self.max_pool, ReLU(y2)),
         self |-> [self EXCEPT !.normalize = BatchNormAfter(@, y1, training)]]

\* the number of blocks appended after the first: range(layers - 1)
ExtraBlocksMut(layers) == RangeLen(layers)
ExtraBlocks(layers) == RangeLen(layers - 1)

\* MAMLConvBase: the list `core` handed to nn.Sequential
MAMLConvBase(output_size, hidden, channels, max_pool, layers, q, d) ==
    <<MAMLConvBlock(channels, hidden, <<3, 3>>, max_pool, q, d)>>
    \o [l \in 1..ExtraBlocks(layers) |->
          MAMLConvBlock(hidden, hidden, <<3, 3>>, max_pool, q, d)]

\* the forward method of a block, by its class
Block_forward(self, y, training) ==
    IF self.cls = "MAMLConvBlock"
    THEN MAMLConvBlock_forward(self, y, training)
    ELSE MAMLLinearBlock_forward(self, y, training)

\* nn.Sequential.forward over a list of blocks
RECURSIVE Sequential_forward(_, _, _)
Sequential_forward(blocks, y, training) ==
    IF blocks = <<>> THEN [y |-> y, self |-> <<>>]
    ELSE LET first == Block_forward(Head(blocks), y, training)
             rest == Sequential_forward(Tail(blocks), first.y, training)
         IN  [y |-> rest.y, self |-> <<first.self>> \o rest.self]

\* OmniglotCNN(output_size, hidden_size, layers): the base is built with
\* the default mp_factor 1.0; the head is normal_-initialized, its bias
\* multiplied by 0.0
OmniglotCNN(output_size, hidden_size, layers, d) ==
    LET lin == Linear(hidden_size, output_size, TRUE, d)
    IN  [cls |-> "OmniglotCNN",
         hidden_size |-> hidden_size,
         base |-> MAMLConvBase(hidden_size, hidden_size, 1, FALSE, layers,
                               FactorDen, d),
         linear |-> [lin EXCEPT !.weight = Some(NormalWeight),
                                !.bias = Some(Mul(lin.bias[1], 0))]]

OmniglotCNN_forward(self, y, training) ==
    LET b == Sequential_forward(self.base, View(y, <<1, 28, 28>>), training)
    IN  [y |-> LinearForward(self.linear, MeanSpatial(b.y)),
         self |-> [self EXCEPT !.base = b.self]]

\* the number of features per example the head of MiniImagenetCNN expects
FlatFeatures(hidden_size) == 25 * hidden_size

MiniImagenetFactorMut(layers) == FactorDen
\* mp_factor = 4 // layers, as a numerator over FactorDen (layers >= 1)
MiniImagenetFactor(layers) == FactorDen * (4 \div layers)

\* MiniImagenetCNN(output_size, hidden_size, layers)
MiniImagenetCNN(output_size, hidden_size, layers, d) ==
    [cls |-> "MiniImagenetCNN",
     base |-> MAMLConvBase(hidden_size, hidden_size, 3, TRUE, layers,
                           MiniImagenetFactor(layers), d),
     linear |-> maml_init_(Linear(FlatFeatures(hidden_size), output_size, TRUE, d)),
     hidden_size |-> hidden_size]

MiniImagenetCNN_forward(self, y, training) ==
    LET b == Sequential_forward(self.base, y, training)
    IN  [y |-> LinearForward(self.linear,
                             View(b.y, <<FlatFeatures(self.hidden_size)>>)),
         self |-> [self EXCEPT !.base = b.self]]

\* sizes = [256, 128, 64, 64] when sizes is None
DefaultSizes == <<256, 128, 64, 64>>

ZipPairsMut(sizes) == [i \in 1..(Len(sizes) - 1) |-> <<sizes[i + 1], sizes[i + 1]>>]
\* zip(sizes[:-1], sizes[1:])
ZipPairs(sizes) == [i \in 1..(Len(sizes) - 1) |-> <<sizes[i], sizes[i + 1]>>]

\* MAMLFC(input_size, output_size, sizes) with sizes non-empty: the list
\* `layers` as its blocks and its last element
MAMLFC(input_size, output_size, sizes, d) ==
    [cls |-> "MAMLFC",
     blocks |-> <<MAMLLinearBlock(input_size, sizes[1], d)>>
                \o [i \in 1..Len(ZipPairs(sizes)) |->
                      MAMLLinearBlock(ZipPairs(sizes)[i][1],
                                      ZipPairs(sizes)[i][2], d)],
     last |-> maml_fc_init_(Linear(sizes[Len(sizes)], output_size, TRUE, d)),
     input_size |-> input_size]

MAMLFC_forward(self, y, training) ==
    LET b == Sequential_forward(self.blocks, View(y, <<self.input_size>>), training)
    IN  [y |-> LinearForward(self.last, b.y),
         self |-> [self EXCEPT !.blocks = b.self]]

\* module(x) for the object of a model
Module_forward(m, y) ==
    CASE m.cls = "MAMLLinearBlock" -> MAMLLinearBlock_forward(m.obj, y, m.training)
      [] m.cls = "MAMLConvBlock" -> MAMLConvBlock_forward(m.obj, y, m.training)
      [] m.cls = "MAMLConvBase" -> Sequential_forward(m.obj, y, m.training)
      [] m.cls = "OmniglotCNN" -> OmniglotCNN_forward(m.obj, y, m.training)
      [] m.cls = "MiniImagenetCNN" -> MiniImagenetCNN_forward(m.obj, y, m.training)
      [] m.cls = "MAMLFC" -> MAMLFC_forward(m.obj, y, m.training)

-----------------------------------------------------------------------------
(* The state machine of module construction and use.                       *)

NoModel == [cls |-> "None", training |-> TRUE, obj |-> <<>>]
NoCall == [name |-> "None"]

\* a freshly constructed nn.Module is in training mode
Built(cls, obj) == [cls |-> cls, training |-> TRUE, obj |-> obj]

\* what a constructor call leaves: the module built (none when it raised)
Constructed(m, c, e) ==
    /\ model' = m
    /\ call' = c
    /\ x' = NoTensor
    /\ out' = NoTensor
    /\ raised' = e
    /\ UNCHANGED <<heap, arg, ret>>

\* A run builds one module and then uses it: the constructors are enabled
\* while no module is built (a call that raised built nothing).
NewMAMLLinearBlock ==
    /\ model.cls = "None"
    /\ \E i \in Widths, o \in Widths, d \in DefaultBiasValues :
        Constructed(Built("MAMLLinearBlock", MAMLLinearBlock(i, o, d)),
                    [name |-> "MAMLLinearBlock", input_size |-> i,
                     output_size |-> o], "")

NewMAMLConvBlock ==
    /\ model.cls = "None"
    /\ \E io \in ConvSizes, mp \in BOOLEAN, q \in BlockFactors,
          d \in DefaultBiasValues :
        Constructed(Built("MAMLConvBlock",
                          MAMLConvBlock(io[1], io[2], <<3, 3>>, mp, q, d)),
                    [name |-> "MAMLConvBlock", in_channels |-> io[1],
                     out_channels |-> io[2], max_pool |-> mp, q |-> q], "")

NewMAMLConvBase ==
    /\ model.cls = "None"
    /\ \E ch \in ConvSizes, mp \in BOOLEAN, layers \in (-1)..MaxLayers,
          q \in BaseFactors, d \in DefaultBiasValues :
        Constructed(Built("MAMLConvBase",
                          MAMLConvBase(ch[2], ch[2], ch[1], mp, layers, q, d)),
                    [name |-> "MAMLConvBase", hidden |-> ch[2],
                     channels |-> ch[1], max_pool |-> mp, layers |-> layers,
                     q |-> q], "")

NewOmniglotCNN ==
    /\ model.cls = "None"
    /\ \E o \in OutputSizes, h \in HiddenSizes, layers \in (-1)..MaxLayers,
          d \in DefaultBiasValues :
        Constructed(Built("OmniglotCNN", OmniglotCNN(o, h, layers, d)),
                    [name |-> "OmniglotCNN", output_size |-> o,
                     hidden_size |-> h, layers |-> layers], "")

\* 4 // layers raises ZeroDivisionError for layers = 0: nothing is built
NewMiniImagenetCNN ==
    /\ model.cls = "None"
    /\ \E o \in OutputSizes, h \in HiddenSizes, layers \in 0..MaxLayers,
          d \in DefaultBiasValues :
        LET c == [name |-> "MiniImagenetCNN", output_size |-> o,
                  hidden_size |-> h, layers |-> layers]
        IN  IF layers = 0
            THEN Constructed(NoModel, c, "ZeroDivisionError")
            ELSE Constructed(Built("MiniImagenetCNN",
                                   MiniImagenetCNN(o, h, layers, d)), c, "")

\* sizes[0] raises IndexError for an empty list: nothing is built
NewMAMLFC ==
    /\ model.cls = "None"
    /\ \E i \in Widths, o \in OutputSizes,
          sizes \in {None} \cup {Some(s) : s \in SeqsUpTo(FCSizes, MaxSizes)},
          d \in DefaultBiasValues :
        LET c == [name |-> "MAMLFC", input_size |-> i, output_size |-> o,
                  sizes |-> sizes]
            s == IF sizes = None THEN DefaultSizes ELSE sizes[1]
        IN  IF s = <<>>
            THEN Constructed(NoModel, c, "IndexError")
            ELSE Constructed(Built("MAMLFC", MAMLFC(i, o, s, d)), c, "")

\* module.train(mode) / module.eval()
Train ==
    \E mode \in BOOLEAN :
        /\ model.cls # "None"
        /\ model.training # mode
        /\ model' = [model EXCEPT !.training = mode]
        /\ UNCHANGED <<call, x, out, raised, heap, arg, ret>>

\* module(x): one forward call on a batch
Forward ==
    \E n \in BatchSizes, id \in Batches :
      \E shape \in InputShapes(n) :
        LET r == Module_forward(model, Input(shape, id))
        IN  /\ model.cls # "None"
            /\ x' = Input(shape, id)
            /\ out' = r.y
            /\ raised' = r.y.err
            /\ model' = [model EXCEPT !.obj = r.self]
            /\ UNCHANGED <<call, heap, arg, ret>>

-----------------------------------------------------------------------------
(* truncated_normal_ on tensors with data (SpecTN).                        *)

TensorIds == {1, 2}
\* the shapes the two tensors can have
TensorShapes == {<<<<2>>, <<1>>>>, <<<<1, 2>>, <<1>>>>, <<<<2, 1>>, <<1, 1>>>>}
Means == {0, 1}
Stds == {-1, 0, 2}

\* a tensor of the given shape filled with v
Full(shape, v) == [shape |-> shape, data |-> [i \in 1..Prod(shape) |-> v]]

\* the values truncnorm.rvs(-2, 2) can return, on the grid of integers
TruncatedSupportMut == (-3)..3
TruncatedSupport == (-2)..2

\* truncnorm.rvs(-2, 2, size=shape): the arrays it can return
Rvs(shape) == [shape : {shape}, data : [1..Prod(shape) -> TruncatedSupport]]

\* values = mean + std * values
Scaled(values, mean, std) ==
    [values EXCEPT !.data = [i \in DOMAIN values.data |->
                               mean + std * values.data[i]]]

\* tensor.copy_(src): the data of src in the shape of tensor
CopyInto(tensor, src) == [tensor EXCEPT !.data = src.data]

\* truncated_normal_(tensor, mean, std) on the tensor t of heap h, with the
\* samples drawn: the heap after the call and the tensor returned
truncated_normal_(h, t, mean, std, samples) ==
    [heap |-> [h EXCEPT ![t] = CopyInto(h[t], Scaled(samples, mean, std))],
     ret |-> t]

NoArg == [tensor |-> 0, shape |-> <<>>, mean |-> 0, std |-> 0]

CallTruncatedNormal ==
    \E t \in TensorIds, mean \in Means, std \in Stds :
      \E samples \in Rvs(heap[t].shape) :
        LET r == truncated_normal_(heap, t, mean, std, samples)
        IN  /\ heap' = r.heap
            /\ ret' = r.ret
            /\ arg' = [tensor |-> t, shape |-> heap[t].shape,
                       mean |-> mean, std |-> std]
            /\ UNCHANGED <<model, call, x, out, raised>>

-----------------------------------------------------------------------------
(* Specifications.                                                         *)

Init ==
    /\ model = NoModel
    /\ call = NoCall
    /\ x = NoTensor
    /\ out = NoTensor
    /\ raised = ""
    /\ heap = [t \in TensorIds |-> Full(<<1>>, 0)]
    /\ arg = NoArg
    /\ ret = 0

Next ==
    \/ NewMAMLLinearBlock
    \/ NewMAMLConvBlock
    \/ NewMAMLConvBase
    \/ NewOmniglotCNN
    \/ NewMiniImagenetCNN
    \/ NewMAMLFC
    \/ Train
    \/ Forward

Spec == Init /\ [][Next]_vars

\* the tensors exist before the call, with arbitrary contents
InitTN ==
    /\ model = NoModel
    /\ call = NoCall
    /\ x = NoTensor
    /\ out = NoTensor
    /\ raised = ""
    /\ \E shapes \in TensorShapes, v \in {0, 9} :
          heap = [t \in TensorIds |-> Full(shapes[t], v)]
    /\ arg = NoArg
    /\ ret = 0

NextTN == CallTruncatedNormal

SpecTN == InitTN /\ [][NextTN]_vars

-----------------------------------------------------------------------------
(* Vocabulary of the properties.                                           *)

\* the blocks of a built model, in forward order
BlocksOf(m) ==
    CASE m.cls \in {"MAMLLinearBlock", "MAMLConvBlock"} -> <<m.obj>>
      [] m.cls = "MAMLConvBase" -> m.obj
      [] m.cls \in {"OmniglotCNN", "MiniImagenetCNN"} -> m.obj.base
      [] m.cls = "MAMLFC" -> m.obj.blocks
      [] OTHER -> <<>>

\* the final linear layer of a built classifier, if it has one
HeadOf(m) ==
    CASE m.cls \in {"OmniglotCNN", "MiniImagenetCNN"} -> Some(m.obj.linear)
      [] m.cls = "MAMLFC" -> Some(m.obj.last)
      [] OTHER -> None

\* the convolution or linear layer of a block
CoreOf(b) == IF b.cls = "MAMLConvBlock" THEN b.conv ELSE b.linear

\* every convolution and linear layer of a built model
ConvsAndLinears(m) ==
    {CoreOf(BlocksOf(m)[i]) : i \in DOMAIN BlocksOf(m)}
    \cup {HeadOf(m)[i] : i \in DOMAIN HeadOf(m)}

BatchNormsOf(m) == {BlocksOf(m)[i].normalize : i \in DOMAIN BlocksOf(m)}

\* the spatial sizes <<H, W>> after each of the blocks of `base` on input y
SpatialAfter(base, y, training) ==
    [k \in 1..Len(base) |->
        LET r == Sequential_forward(SubSeq(base, 1, k), y, training).y
        IN  IF Ok(r) THEN <<r.shape[3], r.shape[4]>> ELSE <<0, 0>>]

Square(seq) == [k \in DOMAIN seq |-> <<seq[k], seq[k]>>]

\* the last forward call returned one row per example, row r holding the
\* features of example r only
OneRowPerExample ==
    /\ Ok(out)
    /\ out.shape[1] = x.shape[1]
    /\ \A r \in 1..out.shape[1] : out.owner[r] = {r}

-----------------------------------------------------------------------------
(* C1: MiniImagenetCNN with the default layers=4 (any output_size and      *)
(* hidden_size drawn, among them 5 and 32) maps every input of shape       *)
(* (N,3,84,84), N >= 1, to an output of shape (N,output_size): the four    *)
(* blocks take the spatial size 84 -> 42 -> 21 -> 10 -> 5, and the view    *)
(* keeps one row per example.                                              *)
C1_MiniImagenetShape ==
    (/\ model.cls = "MiniImagenetCNN"
     /\ call.layers = 4
     /\ Len(x.shape) = 4 /\ SubSeq(x.shape, 2, 4) = <<3, 84, 84>>)
    => /\ raised = ""
       /\ out.shape = <<x.shape[1], call.output_size>>
       /\ SpatialAfter(model.obj.base, x, model.training)
            = Square(<<42, 21, 10, 5>>)
       /\ OneRowPerExample

C1_Witness ==
    /\ model.cls = "MiniImagenetCNN"
    /\ call.layers = 4 /\ call.output_size = 5 /\ call.hidden_size = 32
    /\ x.shape = <<2, 3, 84, 84>>
    /\ out.shape = <<2, 5>>

(* C2: OmniglotCNN with the default layers=4 maps every input of N >= 1    *)
(* examples of 784 flattened pixels to an output of shape (N,output_size): *)
(* the input is viewed as (N,1,28,28), the four blocks take the spatial    *)
(* size 28 -> 14 -> 7 -> 4 -> 2, and the result has one row per example.   *)
C2_OmniglotShape ==
    (/\ model.cls = "OmniglotCNN"
     /\ call.layers = 4
     /\ Len(x.shape) = 2 /\ x.shape[2] = 784)
    => /\ raised = ""
       /\ out.shape = <<x.shape[1], call.output_size>>
       /\ SpatialAfter(model.obj.base, View(x, <<1, 28, 28>>), model.training)
            = Square(<<14, 7, 4, 2>>)
       /\ OneRowPerExample

C2_Witness ==
    /\ model.cls = "OmniglotCNN"
    /\ call.layers = 4 /\ call.output_size = 5
    /\ x.shape = <<1, 784>>
    /\ out.shape = <<1, 5>>

\* the sizes a MAMLFC call works with
SizesOf(c) == IF c.sizes = None THEN DefaultSizes ELSE c.sizes[1]

\* the structure C3 describes: len(sizes) linear blocks and a plain linear
\* layer, chained from input_size to output_size
FCStructure ==
    LET b == model.obj.blocks
        sizes == SizesOf(call)
    IN  /\ Len(b) = Len(sizes)
        /\ \A i \in DOMAIN b :
              /\ b[i].cls = "MAMLLinearBlock"
              /\ b[i].linear.out_features = sizes[i]
              /\ b[i].normalize.num_features = sizes[i]
              /\ b[i].linear.in_features
                   = IF i = 1 THEN call.input_size
                     ELSE b[i - 1].linear.out_features
        /\ model.obj.last.type = "Linear"
        /\ model.obj.last.in_features = b[Len(b)].linear.out_features
        /\ model.obj.last.out_features = call.output_size

\* the last forward call was given (N, input_size)
FCInput == Len(x.shape) = 2 /\ x.shape[2] = call.input_size

FCOutput ==
    /\ raised = ""
    /\ out.shape = <<x.shape[1], call.output_size>>
    /\ OneRowPerExample

(* C3 as stated: every MAMLFC built from a non-empty sizes has the chained *)
(* structure, and maps every input of shape (N,input_size), N >= 1, to an  *)
(* output of shape (N,output_size).                                        *)
C3_Original ==
    model.cls = "MAMLFC" => /\ FCStructure
                            /\ (FCInput => FCOutput)

(* C3 amended: the structure holds as stated; the input of shape           *)
(* (N,input_size) is mapped to (N,output_size) for N >= 2, and for N = 1   *)
(* the forward call raises ValueError (batch statistics of a single value  *)
(* per feature).                                                           *)
C3_FCStructureAndShape ==
    model.cls = "MAMLFC" =>
        /\ FCStructure
        /\ ((FCInput /\ x.shape[1] >= 2) => FCOutput)
        /\ ((FCInput /\ x.shape[1] = 1) => raised = "ValueError")

C3_Witness ==
    /\ model.cls = "MAMLFC"
    /\ call.sizes # None /\ Len(call.sizes[1]) = 1
    /\ call.input_size = 10 /\ call.output_size = 3
    /\ x.shape = <<2, 10>>
    /\ out.shape = <<2, 3>>

(* C4: after truncated_normal_(tensor, mean, std), for std of either sign, *)
(* every value of the tensor lies between mean - 2*std and mean + 2*std    *)
(* (the two ends in whichever order the sign of std puts them), the        *)
(* tensor has the shape it had, and the object returned is the tensor      *)
(* passed in.                                                              *)
C4_TruncatedNormalBounds ==
    ret # 0 =>
        LET t == heap[arg.tensor]
            a == arg.mean - 2 * arg.std
            b == arg.mean + 2 * arg.std
        IN  /\ \A i \in DOMAIN t.data : Min(a, b) <= t.data[i] /\ t.data[i] <= Max(a, b)
            /\ t.shape = arg.shape
            /\ Len(t.data) = Prod(arg.shape)
            /\ ret = arg.tensor

\* a call with a negative std that wrote both ends of the range
C4_Witness ==
    /\ ret = 1
    /\ arg.std < 0
    /\ heap[1].shape = <<1, 2>>
    /\ heap[1].data = <<arg.mean - 2 * arg.std, arg.mean + 2 * arg.std>>

\* the classifiers C5 and C6 name
Classifiers == {"OmniglotCNN", "MiniImagenetCNN", "MAMLFC"}

IsTruncatedNormal(l) == l.weight = Some(TruncatedNormalWeight(0, 1))
IsXavier(l) == l.weight = Some(XavierUniformWeight(1))

(* C5 as stated: in every built OmniglotCNN, MiniImagenetCNN and MAMLFC    *)
(* the weight of every convolution and linear layer is truncated-normal    *)
(* initialized, except the convolution weights and the weight of MAMLFC's  *)
(* output layer, which are Xavier-uniform initialized.                     *)
C5_Original ==
    model.cls \in Classifiers =>
        \A l \in ConvsAndLinears(model) :
            IF l.type = "Conv2d" \/ (model.cls = "MAMLFC" /\ l = model.obj.last)
            THEN IsXavier(l)
            ELSE IsTruncatedNormal(l)

(* C5 amended: every convolution weight and the weight of                  *)
(* MiniImagenetCNN's final linear layer is Xavier-uniform initialized      *)
(* (gain 1); the weight of every MAMLLinearBlock's linear layer and of     *)
(* MAMLFC's output layer is truncated-normal initialized (mean 0, std      *)
(* 0.01); the weight of OmniglotCNN's final linear layer is initialized by *)
(* an untruncated standard normal.                                         *)
C5_WeightInitializers ==
    model.cls \in Classifiers =>
        /\ \A i \in DOMAIN BlocksOf(model) :
              LET b == BlocksOf(model)[i]
              IN  IF b.cls = "MAMLConvBlock"
                  THEN IsXavier(b.conv)
                  ELSE IsTruncatedNormal(b.linear)
        /\ model.cls = "MiniImagenetCNN" => IsXavier(model.obj.linear)
        /\ model.cls = "MAMLFC" => IsTruncatedNormal(model.obj.last)
        /\ model.cls = "OmniglotCNN" => model.obj.linear.weight = Some(NormalWeight)

C5_Witness ==
    /\ model.cls = "MAMLFC"
    /\ Len(model.obj.blocks) = 2
    /\ IsTruncatedNormal(model.obj.last)
    /\ IsTruncatedNormal(model.obj.blocks[2].linear)

(* C6: in every built MAMLLinearBlock, MAMLConvBlock, OmniglotCNN,         *)
(* MiniImagenetCNN and MAMLFC, every convolution and every linear layer    *)
(* has a bias, and the bias is all-zero (the final linear layers of        *)
(* OmniglotCNN and MAMLFC included).                                       *)
C6_BiasesZero ==
    model.cls \in Classifiers \cup {"MAMLLinearBlock", "MAMLConvBlock"} =>
        /\ ConvsAndLinears(model) # {}
        /\ \A l \in ConvsAndLinears(model) : l.bias = Some({0})

C6_Witness ==
    /\ model.cls = "OmniglotCNN"
    /\ Len(model.obj.base) = 4
    /\ model.obj.linear.bias = Some({0})
    /\ model.obj.linear.weight = Some(NormalWeight)

\* the layer holds no running statistics
NoRunningStats(bn) ==
    /\ bn.running_mean = None
    /\ bn.running_var = None
    /\ bn.num_batches_tracked = None

\* a step that is neither a constructor call nor a change of mode: every
\* forward call is one
KeepsObject ==
    /\ model.cls # "None"
    /\ model'.cls = model.cls
    /\ model'.training = model.training

(* C7: the batch normalization of a block holds no running mean, variance  *)
(* or batch count; a forward call, in training or evaluation mode, leaves  *)
(* the stored state of the module as it was; and every normalization of    *)
(* the call uses statistics of the batch given to that call alone.         *)
C7_NoRunningStatistics ==
    [][/\ \A bn \in BatchNormsOf(model') : NoRunningStats(bn)
       /\ KeepsObject => model' = model
       /\ \A i \in DOMAIN out'.stats : out'.stats[i] = {x'.id}]_vars

\* an evaluation-mode forward call through four blocks, each normalized by
\* the statistics of the batch given
C7_Witness ==
    /\ model.cls = "MAMLFC"
    /\ ~model.training
    /\ x.id = 2
    /\ Len(out.stats) = 4
    /\ \A i \in DOMAIN out.stats : out.stats[i] = {2}

\* s = int(n / d) for d > 0: the integer nearest to zero-ward of n / d
IsTruncation(s, n, d) ==
    IF n >= 0 THEN s * d <= n /\ n < (s + 1) * d
              ELSE s * d >= n /\ n > (s - 1) * d

\* s = 2 * max_pool_factor, with max_pool_factor = call.q / FactorDen
IsTwiceFactor(s) == s * FactorDen = 2 * call.q
\* s = int(2 * max_pool_factor)
IsTruncatedTwiceFactor(s) == IsTruncation(s, 2 * call.q, FactorDen)

\* what C8 says of a block, the strides being 2*max_pool_factor exactly or
\* truncated
ConvBlockShape(exact) ==
    LET b == model.obj
        strideOk(s) == IF exact THEN IsTwiceFactor(s) ELSE IsTruncatedTwiceFactor(s)
    IN  /\ b.conv.padding = 1
        /\ b.conv.bias # None
        /\ IF call.max_pool
           THEN /\ b.max_pool.type = "MaxPool2d"
                /\ b.max_pool.kernel_size = b.max_pool.stride
                /\ Len(b.max_pool.stride) = 2
                /\ \A i \in 1..2 : strideOk(b.max_pool.stride[i])
                /\ b.conv.stride = <<1, 1>>
           ELSE /\ b.max_pool.type = "identity"
                /\ Len(b.conv.stride) = 2
                /\ \A i \in 1..2 : strideOk(b.conv.stride[i])

(* C8 as stated: with max_pool the pooling kernel and stride are           *)
(* 2*max_pool_factor and the convolution stride is 1; without it pooling   *)
(* is the identity and the convolution stride is 2*max_pool_factor; the    *)
(* convolution has padding 1 and a bias.                                   *)
C8_Original ==
    model.cls = "MAMLConvBlock" => ConvBlockShape(TRUE)

(* C8 amended: the same with int(2*max_pool_factor), the truncation of     *)
(* 2*max_pool_factor toward zero, in place of 2*max_pool_factor.           *)
C8_TruncatedStrides ==
    model.cls = "MAMLConvBlock" => ConvBlockShape(FALSE)

\* a block built with a factor whose double is negative and not an integer
C8_Witness ==
    /\ model.cls = "MAMLConvBlock"
    /\ call.max_pool
    /\ call.q < 0 /\ (2 * call.q) % FactorDen # 0
    /\ model.obj.max_pool.kernel_size = <<0, 0>>

\* what C9 says of the blocks, given how many there are
ConvBaseBlocks(n) ==
    LET b == model.obj
    IN  /\ Len(b) = n
        /\ \A i \in DOMAIN b :
              /\ b[i].cls = "MAMLConvBlock"
              /\ b[i].conv.in_channels = IF i = 1 THEN call.channels ELSE call.hidden
              /\ b[i].conv.out_channels = call.hidden
              /\ (b[i].max_pool.type = "MaxPool2d") = call.max_pool
              /\ b[i].max_pool = b[1].max_pool
              /\ b[i].conv.stride = b[1].conv.stride
              /\ IF call.max_pool
                 THEN IsTruncatedTwiceFactor(b[i].max_pool.stride[1])
                 ELSE IsTruncatedTwiceFactor(b[i].conv.stride[1])

(* C9 as stated: for every value of layers the stack of a MAMLConvBase     *)
(* holds exactly `layers` blocks, the first channels -> hidden, the others *)
(* hidden -> hidden, all with the same max_pool and max_pool_factor.       *)
C9_Original ==
    model.cls = "MAMLConvBase" => ConvBaseBlocks(call.layers)

(* C9 amended: the same for layers >= 1; for layers <= 0 the stack holds   *)
(* exactly one block, channels -> hidden.                                  *)
C9_BlockCount ==
    model.cls = "MAMLConvBase" => ConvBaseBlocks(Max(call.layers, 1))

C9_Witness ==
    /\ model.cls = "MAMLConvBase"
    /\ call.layers = 0
    /\ Len(model.obj) = 1
    /\ model.obj[1].conv.in_channels = 1
    /\ model.obj[1].conv.out_channels = 64

\* the spatial size of the feature map the base of a MiniImagenetCNN
\* returns for the last input
FinalMap ==
    LET r == Sequential_forward(model.obj.base, x, model.training).y
    IN  IF Ok(r) THEN <<r.shape[3], r.shape[4]>> ELSE <<0, 0>>

(* C10: for MiniImagenetCNN built with layers in 1..4 and applied to an    *)
(* input of shape (N,3,84,84): the final feature map is 5x5 for layers 2   *)
(* and 4 and 10x10 for layers 1 and 3; the output has N rows exactly when  *)
(* the map is 5x5; with a 10x10 map no error is raised and the output has  *)
(* 4N rows of output_size values, rows 4i-3..4i holding features of        *)
(* example i.                                                              *)
C10_RowsByLayers ==
    (/\ model.cls = "MiniImagenetCNN"
     /\ call.layers \in 1..4
     /\ Len(x.shape) = 4 /\ SubSeq(x.shape, 2, 4) = <<3, 84, 84>>)
    => /\ raised = ""
       /\ FinalMap = IF call.layers \in {2, 4} THEN <<5, 5>> ELSE <<10, 10>>
       /\ (out.shape[1] = x.shape[1]) <=> (FinalMap = <<5, 5>>)
       /\ FinalMap = <<10, 10>> =>
            /\ out.shape = <<4 * x.shape[1], call.output_size>>
            /\ \A r \in 1..(4 * x.shape[1]) : out.owner[r] = {(r - 1) \div 4 + 1}

C10_Witness ==
    /\ model.cls = "MiniImagenetCNN"
    /\ call.layers = 3
    /\ x.shape = <<2, 3, 84, 84>>
    /\ raised = ""
    /\ out.shape = <<8, 5>>
    /\ out.owner[5] = {2}

====
